---- MODULE Spec2Model ----
(***************************************************************************)
(* Model of promql_http_api/query.py: the Base, Query and QueryRange       *)
(* endpoint classes.  An endpoint instance is built from a query, asked    *)
(* for its URL (make_url) and asked for a table (to_dataframe), which      *)
(* stores the schema, runs the transport and flattens the response.        *)
(*                                                                         *)
(* Python values are modelled as tagged records so that str and float      *)
(* values with the same digits stay different: StrV("5") is the string     *)
(* '5', IntV("7") the number 7, FloatV("5") the number 5.0.                *)
(***************************************************************************)
EXTENDS Integers, Sequences, FiniteSets, TLC

VARIABLES
    cls,          \* class of the instance: "Query" or "QueryRange"
    query,        \* self.query
    time_arg,     \* the time argument the instance was built with
    time,         \* self.time (Query): a datetime or None
    schema,       \* self.schema
    timezone,     \* self.timezone
    prom_results, \* self.prom_results
    response,     \* self.response.data() as left by the last transport call
    called,       \* whether the last to_dataframe call ran the transport (__call__)
    call_schema,  \* the schema argument of the last to_dataframe call
    ret,          \* what the last to_dataframe call returned or raised
    df_columns,   \* the columns argument of the last DataFrame(...) call
    df_records,   \* the records argument of the last DataFrame(...) call
    col_trace,    \* value of the local `columns` after line 75/93, per sample
    url           \* what the last make_url call returned or raised

vars == <<cls, query, time_arg, time, schema, timezone, prom_results, response, called,
          call_schema, ret, df_columns, df_records, col_trace, url>>

(***************************************************************************)
(* Bounds of the model.                                                    *)
(***************************************************************************)
MaxSamples == 2     \* longest result list a response carries

(***************************************************************************)
(* Python values.                                                          *)
(***************************************************************************)
StrV(s) == [t |-> "str", v |-> s, tz |-> ""]
IntV(s) == [t |-> "int", v |-> s, tz |-> ""]
FloatV(s) == [t |-> "float", v |-> s, tz |-> ""]
NoneCell == [t |-> "None", v |-> "", tz |-> ""]
\* pandas.Timestamp(ts, unit='s', tz=zone)
Timestamp(ts, zone) == [t |-> "Timestamp", v |-> ts.v, tz |-> zone]

\* str(x) and float(x) on the values above
PyStr(x) == IF x.t = "float" THEN StrV(x.v \o ".0") ELSE StrV(x.v)
PyFloat(x) == FloatV(x.v)

\* a timezone object of the instance
TzInit == "datetime.timezone.utc"
TzDefault == "pytz.UTC"

(***************************************************************************)
(* Schemas: None, or a dict with optional keys columns, dtype, timezone.   *)
(***************************************************************************)
Absent == "absent"
NoneSchema == [none |-> TRUE, hasColumns |-> FALSE, columns |-> <<>>,
               dtype |-> Absent, tz |-> Absent]
Dict(hasC, c, d, z) == [none |-> FALSE, hasColumns |-> hasC, columns |-> c,
                        dtype |-> d, tz |-> z]
EmptyDict == Dict(FALSE, <<>>, Absent, Absent)

\* truth value of a schema: None and {} are falsy
Truthy(s) == ~s.none /\ (s.hasColumns \/ s.dtype # Absent \/ s.tz # Absent)

ColumnChoices == {<<FALSE, <<>>>>, <<TRUE, <<>>>>, <<TRUE, <<"ns", "pod">>>>}
DtypeChoices == {Absent, "float"}
TzChoices == {Absent, "EST"}

Schemas == {NoneSchema} \cup
    {Dict(c[1], c[2], d, z) : c \in ColumnChoices, d \in DtypeChoices, z \in TzChoices}

(***************************************************************************)
(* Responses: data() is None, or {resultType, result}.  A metric is an     *)
(* ordered mapping (a dict keeps insertion order): a sequence of           *)
(* <<label, value>> pairs with distinct labels.  A sample is a metric and  *)
(* its [timestamp, value] pairs: `values` of a matrix sample, and the one  *)
(* `value` of a vector sample.  Sample values are numeric strings or       *)
(* numbers, which str and float both accept.                               *)
(***************************************************************************)
Pair1 == <<IntV("1000"), StrV("5")>>
Pair2 == <<IntV("2000"), IntV("7")>>

MetricEmpty == <<>>
MetricPod == << <<"pod", "a">> >>
MetricNsPod == << <<"ns", "x">>, <<"pod", "b">> >>

Sample(m, vs) == [metric |-> m, values |-> vs]

MatrixSamples == {Sample(MetricPod, <<Pair1, Pair2>>),
                  Sample(MetricNsPod, <<Pair2>>),
                  Sample(MetricEmpty, <<Pair1>>)}
VectorSamples == {Sample(MetricPod, <<Pair1>>),
                  Sample(MetricNsPod, <<Pair2>>)}

SeqsUpTo(S, n) == UNION {[1..k -> S] : k \in 0..n}

NoData == [none |-> TRUE, resultType |-> "", result |-> <<>>]
Data(t, r) == [none |-> FALSE, resultType |-> t, result |-> r]

Responses == {NoData}
    \cup {Data("vector", r) : r \in SeqsUpTo(VectorSamples, MaxSamples)}
    \cup {Data("matrix", r) : r \in SeqsUpTo(MatrixSamples, MaxSamples)}
    \cup {Data("scalar", r) : r \in SeqsUpTo({Sample(MetricEmpty, <<Pair1>>)}, 1)}

(***************************************************************************)
(* Outcomes of a call: a table, an exception, or the value None.           *)
(***************************************************************************)
NotCalled == [kind |-> "not called", err |-> "", header |-> <<>>, rows |-> <<>>]
ReturnedNone == [kind |-> "None", err |-> "", header |-> <<>>, rows |-> <<>>]
Raised(e) == [kind |-> "error", err |-> e, header |-> <<>>, rows |-> <<>>]
Table(header, rows) == [kind |-> "table", err |-> "", header |-> header, rows |-> rows]

ErrNoData == "ValueError: No data in PromQL query response"
ErrEmpty == "ValueError: PromQL query response has no results"
ErrType == "ValueError: Unexpected PromQL result type"
ErrQuery == "ValueError: Please set the QueryRange::query element"
ErrKey == "KeyError"
ErrShape == "ValueError: columns passed do not match the data"

(***************************************************************************)
(* Dict access on a metric.                                                *)
(***************************************************************************)
Keys(metric) == [i \in 1..Len(metric) |-> metric[i][1]]
HasKey(metric, k) == \E i \in 1..Len(metric) : metric[i][1] = k
Get(metric, k) == metric[CHOOSE i \in 1..Len(metric) : metric[i][1] = k][2]

(***************************************************************************)
(* Base: helpers of the flattening.                                        *)
(***************************************************************************)
get_schema_columns(sch) ==
    IF Truthy(sch)
    THEN IF sch.hasColumns THEN sch.columns ELSE <<>>
    ELSE <<>>

df_has_datetime(sch) == Truthy(sch) /\ sch.tz # Absent

\* a cast that is applied only when the schema names a dtype
cast_when_dtype(sch, result) ==
    IF Truthy(sch) /\ sch.dtype # Absent THEN PyFloat(result) ELSE result

cast(sch, result) ==
    IF Truthy(sch)
    THEN LET dtype == IF sch.dtype = Absent THEN "str" ELSE sch.dtype
         IN IF dtype = "str" THEN PyStr(result) ELSE PyFloat(result)
    ELSE result

make_full_record(sch, tz, value, partial_record, has_datetime) ==
    LET timestamp == value[1]
        result == cast(sch, value[2])
    IN IF has_datetime
       THEN <<timestamp, Timestamp(timestamp, tz)>> \o partial_record \o <<result>>
       ELSE <<timestamp>> \o partial_record \o <<result>>

\* line 75/93: columns = columns if columns else list(prom_metric.keys())
next_columns(columns, prom_metric) ==
    IF columns # <<>> THEN columns ELSE Keys(prom_metric)

\* line 76/94: record = [prom_metric[column] for column in columns]
HasAll(prom_metric, columns) == \A i \in 1..Len(columns) : HasKey(prom_metric, columns[i])
label_cells(prom_metric, columns) ==
    [i \in 1..Len(columns) |-> StrV(Get(prom_metric, columns[i]))]

\* lines 77-79 and 95-98: the full records of one sample
sample_records(sch, tz, sample, record, has_datetime) ==
    [j \in 1..Len(sample.values) |->
        make_full_record(sch, tz, sample.values[j], record, has_datetime)]

\* lines 80-83 and 99-102: the header
vector_header(has_datetime, columns) ==
    IF has_datetime
    THEN <<"timestamp">> \o columns \o <<"value">>
    ELSE <<"timestamp", "datetime">> \o columns \o <<"value">>

matrix_header(has_datetime, columns) ==
    IF has_datetime
    THEN <<"timestamp", "datetime">> \o columns \o <<"value">>
    ELSE <<"timestamp">> \o columns \o <<"value">>

(***************************************************************************)
(* pandas.DataFrame(records, columns=columns) on a list of lists: the      *)
(* data is as wide as its longest row, shorter rows are filled with None,  *)
(* and a header of another width is refused.  No rows give an empty table. *)
(***************************************************************************)
RECURSIVE MaxLen(_)
MaxLen(rows) ==
    IF rows = <<>> THEN 0
    ELSE LET m == MaxLen(Tail(rows))
         IN IF Len(Head(rows)) > m THEN Len(Head(rows)) ELSE m

Pad(row, n) == [i \in 1..n |-> IF i <= Len(row) THEN row[i] ELSE NoneCell]

DataFrame(records, columns) ==
    IF records = <<>> THEN Table(columns, <<>>)
    ELSE IF MaxLen(records) # Len(columns) THEN Raised(ErrShape)
    ELSE Table(columns, [i \in 1..Len(records) |-> Pad(records[i], Len(columns))])

(***************************************************************************)
(* Base._vector_to_dataframe and Base._matrix_to_dataframe.  The loop over *)
(* self.prom_results (lines 73-79 and 91-98) stops at the first KeyError.  *)
(* A vector sample's `value` is the one pair of its values.                *)
(***************************************************************************)
RECURSIVE sample_loop(_, _, _, _, _, _, _)
sample_loop(sch, tz, results, i, columns, records, trace) ==
    IF i > Len(results)
    THEN [err |-> "", columns |-> columns, records |-> records, trace |-> trace]
    ELSE LET prom_metric == results[i].metric
             cols == next_columns(columns, prom_metric)
         IN IF ~HasAll(prom_metric, cols)
            THEN [err |-> ErrKey, columns |-> cols, records |-> records,
                  trace |-> Append(trace, cols)]
            ELSE sample_loop(sch, tz, results, i + 1, cols,
                             records \o sample_records(sch, tz, results[i],
                                                       label_cells(prom_metric, cols),
                                                       df_has_datetime(sch)),
                             Append(trace, cols))

\* what a flattening leaves: the outcome and the locals it went through
Flat(out, columns, records, trace) ==
    [out |-> out, columns |-> columns, records |-> records, trace |-> trace]

vector_to_dataframe(sch, tz, results) ==
    LET l == sample_loop(sch, tz, results, 1, get_schema_columns(sch), <<>>, <<>>)
        columns == vector_header(df_has_datetime(sch), l.columns)
    IN IF l.err # "" THEN Flat(Raised(l.err), <<>>, <<>>, l.trace)
       ELSE Flat(DataFrame(l.records, columns), columns, l.records, l.trace)

matrix_to_dataframe(sch, tz, results) ==
    LET l == sample_loop(sch, tz, results, 1, get_schema_columns(sch), <<>>, <<>>)
        columns == matrix_header(df_has_datetime(sch), l.columns)
    IN IF l.err # "" THEN Flat(Raised(l.err), <<>>, <<>>, l.trace)
       ELSE Flat(DataFrame(l.records, columns), columns, l.records, l.trace)

(***************************************************************************)
(* Base.to_dataframe (lines 49-67), on the fields schema, timezone and     *)
(* prom_results of the instance and the data of its response.              *)
(***************************************************************************)
\* a timezone that is resolved only while the instance still has its first one
resolve_timezone_once(sch, tz) ==
    IF Truthy(sch) /\ tz = TzInit
    THEN IF sch.tz = Absent THEN TzDefault ELSE sch.tz
    ELSE tz

\* lines 58-59
resolve_timezone(sch, tz) ==
    IF Truthy(sch)
    THEN IF sch.tz = Absent THEN TzDefault ELSE sch.tz
    ELSE tz

\* a dispatch that takes every result type but vector for a matrix
dispatch_else_matrix(sch, tz, data) ==
    IF data.resultType = "vector" THEN vector_to_dataframe(sch, tz, data.result)
    ELSE matrix_to_dataframe(sch, tz, data.result)

\* lines 61-67
dispatch(sch, tz, data) ==
    IF data.resultType = "vector" THEN vector_to_dataframe(sch, tz, data.result)
    ELSE IF data.resultType = "matrix" THEN matrix_to_dataframe(sch, tz, data.result)
    ELSE Flat(Raised(ErrType), <<>>, <<>>, <<>>)

\* line 53: self.prom_results is assigned once the data is known not to be None
stored_results(results, data) == IF data.none THEN results ELSE data.result

Base_to_dataframe(sch, tz, data) ==
    IF data.none
    THEN [flat |-> Flat(Raised(ErrNoData), <<>>, <<>>, <<>>), timezone |-> tz]
    ELSE IF Len(data.result) = 0
    THEN [flat |-> Flat(Raised(ErrEmpty), <<>>, <<>>, <<>>), timezone |-> tz]
    ELSE [flat |-> dispatch(sch, resolve_timezone(sch, tz), data),
          timezone |-> resolve_timezone(sch, tz)]

(***************************************************************************)
(* Query and QueryRange: construction, make_url and to_dataframe.          *)
(***************************************************************************)
NoneQuery == [none |-> TRUE, s |-> ""]
Q(s) == [none |-> FALSE, s |-> s]
NoneTime == [none |-> TRUE, secs |-> ""]
Datetime(secs) == [none |-> FALSE, secs |-> secs]
\* a time argument left out of the call to Query(...)
Omitted == [none |-> TRUE, secs |-> "omitted"]

\* line 140: the default of `time` is datetime.now(), evaluated once, when
\* the class body is executed
ImportNow == Datetime("1700000000")
\* start, end and step of the modelled QueryRange instances
RangeStart == Datetime("1000")
RangeEnd == Datetime("2000")
RangeStep == "60s"

\* str(dt.timestamp()): timestamp() is a float
timestamp_str(dt) == dt.secs \o ".0"
\* str(self.query)
query_str(q) == IF q.none THEN "None" ELSE q.s

\* Query.__init__ (lines 137-145): the time the instance keeps
Query_init_time(timeArg) == IF timeArg = Omitted THEN ImportNow ELSE timeArg

\* Query.make_url (lines 162-166); a datetime is always true, None is not
Query_make_url(q, t) ==
    IF ~t.none
    THEN "/api/v1/query?query=" \o query_str(q) \o "&time=" \o timestamp_str(t)
    ELSE "/api/v1/query?query=" \o query_str(q)

\* QueryRange.make_url (lines 210-217); str + None raises TypeError
QueryRange_make_url(q) ==
    IF q.none THEN "TypeError"
    ELSE "/api/v1/query_range?query=" \o q.s \o "&start=" \o timestamp_str(RangeStart)
         \o "&end=" \o timestamp_str(RangeEnd) \o "&step=" \o RangeStep

\* lines 169 and 220: the guard of to_dataframe
query_is_missing(q) == q.none

Queries == {NoneQuery, Q(""), Q("up")}
TimeArgs == {Omitted, NoneTime, Datetime("1000")}

Fresh(c, q, ta, t) ==
    /\ cls = c
    /\ query = q
    /\ time_arg = ta
    /\ time = t
    /\ schema = NoneSchema
    /\ timezone = TzInit
    /\ prom_results = <<>>
    /\ response = NoData
    /\ called = FALSE
    /\ call_schema = NoneSchema
    /\ ret = NotCalled
    /\ df_columns = <<>>
    /\ df_records = <<>>
    /\ col_trace = <<>>
    /\ url = ""

\* QueryRange(url, "up", start, end, step)
Init == Fresh("QueryRange", Q("up"), NoneTime, NoneTime)

\* an instance of either class, built with any query and any time argument
InitUrl ==
    \/ \E q \in Queries, ta \in TimeArgs : Fresh("Query", q, ta, Query_init_time(ta))
    \/ \E q \in Queries : Fresh("QueryRange", q, NoneTime, NoneTime)

\* lines 171-173 and 222-224: store the schema, run the transport, flatten
run_and_flatten(sch, resp) ==
    \E b \in {Base_to_dataframe(sch, timezone, resp)} :
       /\ schema' = sch
       /\ called' = TRUE
       /\ response' = resp
       /\ timezone' = b.timezone
       /\ prom_results' = stored_results(prom_results, resp)
       /\ ret' = b.flat.out
       /\ df_columns' = b.flat.columns
       /\ df_records' = b.flat.records
       /\ col_trace' = b.flat.trace

\* the call ends at the guard with `outcome`
stop_at_guard(outcome) ==
    /\ ret' = outcome
    /\ called' = FALSE
    /\ df_columns' = <<>>
    /\ df_records' = <<>>
    /\ col_trace' = <<>>
    /\ UNCHANGED <<schema, timezone, prom_results, response>>

Query_to_dataframe(sch, resp) ==
    /\ cls = "Query"
    /\ call_schema' = sch
    /\ IF query_is_missing(query)
       THEN stop_at_guard(ReturnedNone)
       ELSE run_and_flatten(sch, resp)
    /\ UNCHANGED <<cls, query, time_arg, time, url>>

QueryRange_to_dataframe(sch, resp) ==
    /\ cls = "QueryRange"
    /\ call_schema' = sch
    /\ IF query_is_missing(query)
       THEN stop_at_guard(Raised(ErrQuery))
       ELSE run_and_flatten(sch, resp)
    /\ UNCHANGED <<cls, query, time_arg, time, url>>

make_url ==
    /\ url' = IF cls = "Query" THEN Query_make_url(query, time)
              ELSE QueryRange_make_url(query)
    /\ UNCHANGED <<cls, query, time_arg, time, schema, timezone, prom_results, response,
                   called, call_schema, ret, df_columns, df_records, col_trace>>

Next == \E sch \in Schemas, resp \in Responses : QueryRange_to_dataframe(sch, resp)

Spec == Init /\ [][Next]_vars

\* the inputs of the calls made on the instances of InitUrl
SchemasUrl == {NoneSchema, EmptyDict}
ResponsesUrl == {NoData,
                 Data("vector", <<Sample(MetricPod, <<Pair1>>)>>),
                 Data("matrix", <<Sample(MetricPod, <<Pair1, Pair2>>)>>)}

NextUrl ==
    \/ make_url
    \/ \E sch \in SchemasUrl, resp \in ResponsesUrl : Query_to_dataframe(sch, resp)
    \/ \E sch \in SchemasUrl, resp \in ResponsesUrl : QueryRange_to_dataframe(sch, resp)

SpecUrl == InitUrl /\ [][NextUrl]_vars

(***************************************************************************)
(* Properties.                                                             *)
(***************************************************************************)
\* the last call got as far as building the header and calling DataFrame
Reached == df_columns # <<>>
\* the schema argument is a dict with a 'timezone' key
HasTimezoneKey(sch) == ~sch.none /\ sch.tz # Absent
\* the schema argument is a dict with at least one key ({} is the default of
\* QueryRange.to_dataframe, None that of Query.to_dataframe)
SchemaGiven(sch) == ~sch.none /\ sch # EmptyDict
Count(h, name) == Cardinality({i \in DOMAIN h : h[i] = name})

\* the [sample index, pair] list of a result list, sample by sample
RECURSIVE ExpandFrom(_, _)
ExpandFrom(results, i) ==
    IF i > Len(results) THEN <<>>
    ELSE [j \in 1..Len(results[i].values) |-> <<i, results[i].values[j]>>]
         \o ExpandFrom(results, i + 1)
Expand(results) == ExpandFrom(results, 1)

\* the label cells of a record: what lies between the time cells and the value
LabelCells(rec, has_datetime) ==
    SubSeq(rec, IF has_datetime THEN 3 ELSE 2, Len(rec) - 1)
\* the label columns of a header
LabelColumns(h) ==
    SelectSeq(h, LAMBDA c : c \notin {"timestamp", "datetime", "value"})

\* C1: the header a vector or matrix call builds has exactly one 'datetime'
\* column, right after 'timestamp', if and only if the schema is a dict
\* with a 'timezone' key; otherwise it has no 'datetime' column.
C1_DatetimeIffTimezoneKey ==
    Reached =>
        /\ df_columns[1] = "timestamp"
        /\ IF HasTimezoneKey(call_schema)
           THEN Count(df_columns, "datetime") = 1 /\ df_columns[2] = "datetime"
           ELSE Count(df_columns, "datetime") = 0

\* C2: every row built by _make_full_record has as many cells as the header
\* has columns, the timestamp first, the value last, and a Timestamp cell
\* exactly under a 'datetime' column.
C2_HeaderMatchesRows ==
    Reached =>
        \A i \in DOMAIN df_records :
            /\ Len(df_records[i]) = Len(df_columns)
            /\ df_columns[1] = "timestamp"
            /\ df_columns[Len(df_columns)] = "value"
            /\ \A k \in DOMAIN df_columns :
                  k <= Len(df_records[i]) =>
                      (df_columns[k] = "datetime" <=> df_records[i][k].t = "Timestamp")

\* C3: a vector or matrix call whose samples all carry the looked-up labels
\* returns a table with one row per [timestamp, value] pair (one per sample
\* of a vector), in the order of the samples and of the pairs in a sample,
\* the rows of one sample sharing their label cells.
C3_RowPerValueInOrder ==
    Reached =>
        LET e == Expand(response.result)
        IN /\ ret.kind = "table"
           /\ Len(ret.rows) = Len(e)
           /\ \A i \in DOMAIN ret.rows : ret.rows[i][1] = e[i][2][1]
           /\ \A i, j \in DOMAIN df_records :
                 e[i][1] = e[j][1] =>
                     LabelCells(df_records[i], HasTimezoneKey(call_schema))
                         = LabelCells(df_records[j], HasTimezoneKey(call_schema))

\* C4: the value cell of every row is dtype(raw value) when a schema is
\* given, dtype being str when the schema has no 'dtype' entry, and is the
\* raw value itself when no schema is given.
C4_ValueCellIsCast ==
    Reached =>
        LET e == Expand(response.result)
        IN /\ Len(df_records) = Len(e)
           /\ \A i \in DOMAIN df_records :
                 LET raw == e[i][2][2]
                     cell == df_records[i][Len(df_records[i])]
                 IN IF ~SchemaGiven(call_schema) THEN cell = raw
                    ELSE IF call_schema.dtype = "float" THEN cell = PyFloat(raw)
                    ELSE cell = PyStr(raw)

\* C4 witness: a returned table built under {dtype: float} holds 5.0 for '5',
\* and one built under a schema without dtype holds '7' for 7
C4_Witness ==
    /\ ret.kind = "table"
    /\ ret.rows # <<>>
    /\ SchemaGiven(call_schema)
    /\ \/ /\ call_schema.dtype = "float"
          /\ response.result[1].values[1][2] = StrV("5")
          /\ ret.rows[1][Len(ret.rows[1])] = FloatV("5")
       \/ /\ call_schema.dtype = Absent
          /\ response.result[1].values[1][2] = IntV("7")
          /\ ret.rows[1][Len(ret.rows[1])] = StrV("7")

\* C5: a call that ran the transport fails with the no-data error when
\* data() is None, with the empty-result error when the result list is
\* empty, with the result-type error when the type of a non-empty result is
\* neither 'vector' nor 'matrix'; it returns a table only otherwise.
C5_ErrorsBeforeTable ==
    /\ called =>
        /\ response.none => ret = Raised(ErrNoData)
        /\ ~response.none /\ response.result = <<>> => ret = Raised(ErrEmpty)
        /\ (~response.none /\ response.result # <<>>
                /\ response.resultType \notin {"vector", "matrix"})
             => ret = Raised(ErrType)
    /\ ret.kind = "table" =>
        /\ called
        /\ ~response.none
        /\ response.result # <<>>
        /\ response.resultType \in {"vector", "matrix"}

\* C5 witness: a non-empty scalar result was refused
C5_Witness ==
    /\ called
    /\ response.resultType = "scalar"
    /\ response.result # <<>>
    /\ ret = Raised(ErrType)

\* some sample of the result list lacks a label the schema's columns name
LacksNamedLabel(sch, results) ==
    \E i \in DOMAIN results : ~HasAll(results[i].metric, sch.columns)
WithoutColumns(sch) == [sch EXCEPT !.hasColumns = FALSE, !.columns = <<>>]

\* C6: when schema.columns names a label some sample's metric lacks, the call
\* fails with the missing-label error, and the same result list flattened
\* without schema.columns gives a table.
C6_MissingLabelFailsFallbackSucceeds ==
    (/\ called
     /\ ~response.none
     /\ response.resultType \in {"vector", "matrix"}
     /\ call_schema.columns # <<>>
     /\ LacksNamedLabel(call_schema, response.result))
    => /\ ret = Raised(ErrKey)
       /\ Base_to_dataframe(WithoutColumns(call_schema), TzInit, response).flat.out.kind
             = "table"

\* C7: what a call returns or raises is what a newly built instance returns
\* or raises for the same schema and response, whatever calls came before.
C7_CallIndependent ==
    called => ret = Base_to_dataframe(call_schema, TzInit, response).flat.out

\* C7 witness: an instance that still holds the timezone of an earlier call
\* returned a table for a call made without a schema
C7_Witness ==
    /\ called
    /\ ret.kind = "table"
    /\ ret.rows # <<>>
    /\ ~SchemaGiven(call_schema)
    /\ timezone \notin {TzInit, TzDefault}

\* C8: to_dataframe of a QueryRange whose query is None or empty fails with
\* the missing-query error without running the transport.
C8_NoQueryNoTransport ==
    (cls = "QueryRange" /\ ret # NotCalled /\ (query.none \/ query.s = ""))
    => (ret = Raised(ErrQuery) /\ ~called)

\* C9: the URL of a Query is '/api/v1/query?query=<query>', followed by
\* '&time=<unix seconds>' if and only if a time was given when it was built.
C9_TimeIffSupplied ==
    (cls = "Query" /\ url # "" /\ ~query.none)
    => url = "/api/v1/query?query=" \o query.s
             \o (IF time_arg # Omitted /\ ~time_arg.none
                 THEN "&time=" \o time_arg.secs \o ".0"
                 ELSE "")

\* C10: the column list is the same for every sample of a call: the schema's
\* columns when they are not empty, else the metric keys of the first
\* sample, also when that metric is empty; the label columns of the header
\* are that list.
C10_FirstSampleWins ==
    (called /\ col_trace # <<>>)
    => LET want == IF ~call_schema.none /\ call_schema.columns # <<>>
                   THEN call_schema.columns
                   ELSE Keys(response.result[1].metric)
       IN /\ \A i \in DOMAIN col_trace : col_trace[i] = want
          /\ Reached => LabelColumns(df_columns) = want

====
